---- MODULE Spec2Model ----
(***************************************************************************)
(* SilentCut: the adaptive silence-threshold search.                       *)
(*                                                                         *)
(*   Spec     AudioProcessor.process_audio (silentcut/audio/processor.py), *)
(*            the sequential search: preset probes, bisection, final       *)
(*            export and the accept/reject decision.                       *)
(*   ParSpec  the concurrent search of the GUI and of the web application: *)
(*            one probe task per preset, results collected as they         *)
(*            complete, the closest candidate exported.                    *)
(*   BatchSpec  the batch loops of the CLI and of the GUI: one future per  *)
(*            file, the results counted as they complete.                  *)
(*   GuiSeqSpec  the sequential search on the GUI worker thread, with      *)
(*            Worker.stop called from the GUI thread while it runs.        *)
(*   PathSpec  the scratch paths the probe tasks of one concurrent search  *)
(*            build and write.                                             *)
(*                                                                         *)
(* Thresholds are dBFS floats in the code.  They are kept here as integers *)
(* in fixed point, Unit units per dB, so that the halvings of the          *)
(* bisection and the 0.1 dB rounding are computed, not assumed.  Sizes are *)
(* bytes.  Ratios are never formed: every comparison of a ratio is written *)
(* as the equivalent comparison of integers.                               *)
(***************************************************************************)
EXTENDS Integers, Sequences, FiniteSets, TLC

(***************************************************************************)
(* Program constants (processor.py:13-29).                                 *)
(***************************************************************************)
MIN_THRESHOLD == -100
MAX_THRESHOLD == 0
MAX_SEARCH_ATTEMPTS == 40
PRESET_THRESHOLDS == <<-90, -80, -70, -60, -50, -45, -40, -35, -30, -25, -20, -15, -10>>
\* MIN_SIZE_RATIO = 0.5 and MAX_SIZE_RATIO = 0.99, in percent
MIN_SIZE_RATIO == 50
MAX_SIZE_RATIO == 99

(***************************************************************************)
(* Fixed point for dBFS values.                                            *)
(***************************************************************************)
Unit == 10 * 256
Tenth == Unit \div 10
dB(x) == x * Unit
\* float('-inf'): below every threshold the search can form
NegInf == 0 - 2^30

Abs(x) == IF x < 0 THEN -x ELSE x

(***************************************************************************)
(* Bounds of the model.                                                    *)
(***************************************************************************)
\* the search runs over the first NumPresets entries of PRESET_THRESHOLDS
NumPresets == 2
\* scratch files one search may leave behind before the model stops
\* drawing the outcome that leaks one
MaxLeaked == 1
\* bisection probes of one search that may land in the band without being
\* very close to the target
MaxInBandFar == 2

\* the concurrent search is given the first NumTasks entries as its presets
NumTasks == 3
\* max_workers of the ProcessPoolExecutor
MaxWorkers == 2
\* readings the wall clock goes through while the probe tasks run
MaxClock == 2
\* audio files found in the input directory of a batch
NumFiles == 3

Presets == SubSeq(PRESET_THRESHOLDS, 1, NumPresets)

\* os.path.getsize(self.input_file)
InputSizes == {1001}
\* byte sizes a probe export may measure
PresetSizes == {300, 400, 500, 600, 700, 900, 995, 1010}
BisectSizes == {400, 600, 700, 900, 1010}
\* byte sizes the final export may measure
FinalSizes == {400, 450, 451, 460, 500, 700, 995, 1001, 1011, 1020}
\* byte sizes a probe task of the concurrent search may measure
TaskSizes == {400, 600, 900, 1010}
\* the adaptive initial threshold (dB): processor.py:111-114 clamps it into
\* [MIN_THRESHOLD, MAX_THRESHOLD - 20]; processor.py:117 is taken when every
\* one-second segment is digital silence, and then average_dbfs is -inf
InitialThresholds == {-95, -80}

VARIABLES
    pc,                 \* position in process_audio
    input_size,         \* processor.py:71
    initial_threshold,  \* processor.py:111-117, fixed point
    presetIdx,          \* index into Presets of the next preset to probe
    preset_results,     \* processor.py:123
    low, high, current, \* processor.py:208-226, fixed point
    tested_thresholds,  \* processor.py:229, the keys of the dict
    attempts,           \* processor.py:235
    result,             \* the last value returned by test_threshold
    best,               \* best_result: <<>> (None) or <<r>>
    best_threshold,     \* processor.py:199, 231, 258: <<>> (None) or <<t>>
    best_audio,         \* processor.py:200, 232, 259: <<>> (None) or <<t>>, the
                        \* audio returned by the probe of threshold t
    final_size,         \* processor.py:299
    ret,                \* what process_audio returned
    scratch,            \* scratch files left on disk by test_threshold
    outputWritten,      \* a file exists at output_path
    evals,              \* calls of test_threshold so far
    inBandFar,          \* bisection probes in the band and not very close so far
    onlyNoChunks        \* every call of test_threshold so far returned no_chunks

(***************************************************************************)
(* The concurrent search: Worker.process_single_file_parallel              *)
(* (gui/controllers/desilencer_controller.py:234-410) and process_audio_mp *)
(* (web/app.py:226-353).                                                   *)
(***************************************************************************)
VARIABLES
    variant,            \* "gui" or "web": which of the two controllers runs
    audioLoads,         \* AudioSegment.from_file(input_file) succeeds
    running,            \* Worker.running (desilencer_controller.py:122)
    outcome,            \* what test_threshold_task returns for each task
    taskState,          \* each future: "queued", "running" or "finished"
    collected,          \* the futures as_completed has yielded to the loop
    valid_results,      \* desilencer_controller.py:265, app.py:262
    temp_files,         \* desilencer_controller.py:268, app.py:263
    scratchFiles,       \* the scratch files on disk, by the task that wrote them
    ppc,                \* position in the controller
    best_result,        \* desilencer_controller.py:331, app.py:291: <<>> or <<r>>
    pfinal_size,        \* the size of the file at output_path
    pret,               \* what the controller returned
    poutputWritten      \* a file exists at output_path

searchVars == <<variant, audioLoads, outcome, taskState, collected, valid_results,
                temp_files, scratchFiles, ppc, best_result, pfinal_size, pret,
                poutputWritten>>

parVars == <<running, searchVars>>

(***************************************************************************)
(* Batch processing: process_batch (cli/__main__.py:42-105) and            *)
(* Worker.run_batch_multiprocessing (desilencer_controller.py:489-562).    *)
(***************************************************************************)
VARIABLES
    batchMode,          \* "cli" or "gui": which of the two batch loops runs
    fileOutcome,        \* per file: what its future gives
    fileState,          \* each future: "queued", "running" or "finished"
    bcollected,         \* the futures as_completed has yielded to the loop
    processed_files,    \* desilencer_controller.py:509; len(results) in the CLI
    success_count,      \* desilencer_controller.py:510, __main__.py:99
    fail_count,         \* desilencer_controller.py:511, __main__.py:100
    bpc,                \* position in the batch function
    bret                \* what the batch reported

batchVars == <<batchMode, fileOutcome, fileState, bcollected, processed_files,
               success_count, fail_count, bpc, bret>>

(***************************************************************************)
(* The scratch paths of the probe tasks: test_threshold_task               *)
(* (desilencer_controller.py:72-80, app.py:195-203) names its scratch file *)
(* after the input file, its threshold and the wall clock.                 *)
(***************************************************************************)
VARIABLES
    thresholds,         \* the preset list the caller supplied, one task each
    clock,              \* what time.time() returns now
    probeState,         \* each task: "queued", "running", "named" or "exported"
    temp_output_path    \* desilencer_controller.py:75, app.py:198, per task

pathVars == <<thresholds, clock, probeState, temp_output_path>>

\* no probe task is being followed
PathIdle ==
    /\ thresholds = <<>>
    /\ clock = 0
    /\ probeState = <<>>
    /\ temp_output_path = <<>>

\* no batch runs
BatchIdle ==
    /\ batchMode = "none"
    /\ fileOutcome = <<>>
    /\ fileState = <<>>
    /\ bcollected = {}
    /\ processed_files = 0
    /\ success_count = 0
    /\ fail_count = 0
    /\ bpc = "idle"
    /\ bret = [success |-> FALSE, kind |-> "running"]

seqVars == <<pc, initial_threshold, presetIdx, preset_results, low, high,
             current, tested_thresholds, attempts, result, best, best_threshold,
             best_audio, final_size, ret, scratch, outputWritten, evals, inBandFar,
             onlyNoChunks>>

(***************************************************************************)
(* The acceptance band in bytes (processor.py:89-90): int() truncates.     *)
(***************************************************************************)
MinAcceptable(n) == (n * MIN_SIZE_RATIO) \div 100
MaxAcceptable(n) == (n * MAX_SIZE_RATIO) \div 100

min_acceptable_size == MinAcceptable(input_size)
max_acceptable_size == MaxAcceptable(input_size)

\* min_acceptable_size <= r["size"] <= max_acceptable_size (processor.py:194, 254)
InBand(size) == min_acceptable_size <= size /\ size <= max_acceptable_size

\* abs(ratio - target) with ratio = size / input_size, scaled by 100 * input_size
Dist(size, target) == Abs(100 * size - target * input_size)

\* abs(r["ratio"] - 0.7)
Dist07(size) == Dist(size, 70)

\* abs(result["ratio"] - 0.7) < 0.05 (processor.py:264)
VeryClose(size) == Dist07(size) < 5 * input_size

(***************************************************************************)
(* round(current, 1): to the nearest tenth of a dB, ties to the even tenth.*)
(***************************************************************************)
Round1(x) ==
    LET q == x \div Tenth
        r == x % Tenth
    IN  IF x = NegInf THEN NegInf
        ELSE IF 2 * r < Tenth THEN q * Tenth
        ELSE IF 2 * r > Tenth THEN (q + 1) * Tenth
        ELSE IF q % 2 = 0 THEN q * Tenth ELSE (q + 1) * Tenth

\* the lower operand, without the halving
LowerEnd(a, b) == a

\* (a + b) / 2
Mid(a, b) == IF a = NegInf \/ b = NegInf THEN NegInf ELSE (a + b) \div 2

\* the increment is dropped
PlusNothing(a, d) == a

\* a + d for a finite d
Plus(a, d) == IF a = NegInf THEN NegInf ELSE a + d

(***************************************************************************)
(* list.sort(key=...)[0]: the index of the first least key.              *)
(***************************************************************************)
FirstMinIdx(keys) ==
    CHOOSE i \in 1..Len(keys) :
        \A j \in 1..Len(keys) : keys[i] < keys[j] \/ (keys[i] = keys[j] /\ i <= j)

(***************************************************************************)
(* test_threshold (processor.py:125-184): what one call can return, and    *)
(* whether it leaves its scratch file on disk.  The file is created at     *)
(* line 154 and unlinked at line 164.  An exception raised before line 154 *)
(* (the split, the concatenation) leaves no file; one raised by the export *)
(* (158) or by getsize (159) goes to the handler at 178, which does not    *)
(* unlink the file.                                                        *)
(***************************************************************************)
NoChunksResult == [status |-> "no_chunks", size |-> 0]
SuccessResult(s) == [status |-> "success", size |-> s]
ErrorResult == [status |-> "error", size |-> 0]

TestThreshold(sizes) ==
    {NoChunksResult, ErrorResult} \cup {SuccessResult(s) : s \in sizes}

\* the scratch files a call returning r may leave behind
ScratchLeft(r) == IF r.status = "error" THEN {0, 1} ELSE {0}

\* every result that is not no_chunks counts as a success
IsNotNoChunks(r) == r.status # "no_chunks"

\* result["status"] == "success" (processor.py:190, 250)
IsSuccess(r) == r.status = "success"

NoResult == [status |-> "none", size |-> 0]
NoReturn == [success |-> FALSE, kind |-> "running"]

NoBest == <<>>

\* the concurrent search before it starts
ParIdle ==
    /\ variant = "none"
    /\ audioLoads = TRUE
    /\ running = TRUE
    /\ outcome = <<>>
    /\ taskState = <<>>
    /\ collected = {}
    /\ valid_results = <<>>
    /\ temp_files = {}
    /\ scratchFiles = {}
    /\ ppc = "idle"
    /\ best_result = NoBest
    /\ pfinal_size = 0
    /\ pret = NoReturn
    /\ poutputWritten = FALSE

\* the sequential search before it starts
SeqStart ==
    /\ pc = "presets"
    /\ presetIdx = 1
    /\ preset_results = <<>>
    /\ low = dB(MIN_THRESHOLD)
    /\ high = dB(MAX_THRESHOLD)
    /\ current = 0
    /\ tested_thresholds = {}
    /\ attempts = 0
    /\ result = NoResult
    /\ best = NoBest
    /\ best_threshold = <<>>
    /\ best_audio = <<>>
    /\ final_size = 0
    /\ ret = NoReturn
    /\ scratch = 0
    /\ outputWritten = FALSE
    /\ evals = 0
    /\ inBandFar = 0
    /\ onlyNoChunks = TRUE

\* the sequential search when the concurrent one runs instead
SeqIdle ==
    /\ pc = "idle"
    /\ initial_threshold = 0
    /\ presetIdx = 1
    /\ preset_results = <<>>
    /\ low = dB(MIN_THRESHOLD)
    /\ high = dB(MAX_THRESHOLD)
    /\ current = 0
    /\ tested_thresholds = {}
    /\ attempts = 0
    /\ result = NoResult
    /\ best = NoBest
    /\ best_threshold = <<>>
    /\ best_audio = <<>>
    /\ final_size = 0
    /\ ret = NoReturn
    /\ scratch = 0
    /\ outputWritten = FALSE
    /\ evals = 0
    /\ inBandFar = 0
    /\ onlyNoChunks = TRUE

Init ==
    /\ input_size \in InputSizes
    /\ initial_threshold \in {dB(t) : t \in InitialThresholds} \cup {NegInf}
    /\ SeqStart
    /\ ParIdle
    /\ PathIdle
    /\ BatchIdle

(***************************************************************************)
(* processor.py:188-191: one preset probe.                                 *)
(***************************************************************************)
PresetProbe ==
    /\ pc = "presets"
    /\ \E r \in TestThreshold(PresetSizes) :
        /\ result' = r
        /\ \E left \in ScratchLeft(r) :
            /\ scratch + left <= MaxLeaked
            /\ scratch' = scratch + left
        /\ preset_results' =
             IF IsSuccess(r)
             THEN Append(preset_results,
                         [threshold |-> dB(Presets[presetIdx]), size |-> r.size])
             ELSE preset_results
        /\ onlyNoChunks' = (onlyNoChunks /\ r.status = "no_chunks")
    /\ evals' = evals + 1
    /\ presetIdx' = presetIdx + 1
    /\ pc' = IF presetIdx = Len(Presets) THEN "select" ELSE "presets"
    /\ UNCHANGED <<input_size, initial_threshold, low, high, current,
                   tested_thresholds, attempts, best, best_threshold, best_audio,
                   final_size, ret, outputWritten, inBandFar>>
    /\ UNCHANGED <<parVars, pathVars, batchVars>>

(***************************************************************************)
(* processor.py:194-232: use a valid preset, or set up the bisection.      *)
(***************************************************************************)
RecInBand(r) == InBand(r.size)
RecTooLarge(r) == r.size > max_acceptable_size
RecTooSmall(r) == r.size < min_acceptable_size
RecDist07(r) == Dist07(r.size)
RecSize(r) == r.size
RecNegSize(r) == 0 - r.size

valid_presets == SelectSeq(preset_results, RecInBand)
larger_presets == SelectSeq(preset_results, RecTooLarge)
smaller_presets == SelectSeq(preset_results, RecTooSmall)

\* the first valid preset, without the sort
BestPresetFirstMatch == valid_presets[1]

\* valid_presets.sort(key=lambda r: abs(r["ratio"] - 0.7)); valid_presets[0]
BestPreset == valid_presets[FirstMinIdx([k \in 1..Len(valid_presets) |-> RecDist07(valid_presets[k])])]

\* processor.py:208-223
InitialHigh ==
    IF larger_presets # <<>>
    THEN larger_presets[FirstMinIdx([k \in 1..Len(larger_presets) |-> RecSize(larger_presets[k])])].threshold
    ELSE dB(MAX_THRESHOLD)
InitialLow ==
    IF smaller_presets # <<>>
    THEN smaller_presets[FirstMinIdx([k \in 1..Len(smaller_presets) |-> RecNegSize(smaller_presets[k])])].threshold
    ELSE dB(MIN_THRESHOLD)

SelectPreset ==
    /\ pc = "select"
    /\ IF valid_presets # <<>>
       THEN /\ best' = <<BestPreset>>
            /\ best_threshold' = <<BestPreset.threshold>>
            /\ best_audio' = <<BestPreset.threshold>>
            /\ pc' = "final"
            /\ UNCHANGED <<low, high, current, tested_thresholds, attempts,
                           preset_results>>
       ELSE /\ low' = InitialLow
            /\ high' = InitialHigh
            /\ current' = initial_threshold
            /\ tested_thresholds' = {}
            /\ best' = <<>>
            /\ best_threshold' = <<>>
            /\ best_audio' = <<>>
            /\ attempts' = 0
            /\ pc' = "bisect"
            \* preset_results is not read after line 223
            /\ preset_results' = <<>>
    /\ UNCHANGED <<input_size, initial_threshold, presetIdx, result,
                   final_size, ret, scratch, outputWritten, evals, inBandFar>>
    /\ UNCHANGED onlyNoChunks
    /\ UNCHANGED <<parVars, pathVars, batchVars>>

(***************************************************************************)
(* processor.py:236-288: one iteration of the bisection loop.              *)
(***************************************************************************)
\* the loop condition off by one
LoopGuardInclusive == attempts <= MAX_SEARCH_ATTEMPTS

\* while attempts < MAX_SEARCH_ATTEMPTS
LoopGuard == attempts < MAX_SEARCH_ATTEMPTS

\* processor.py:286: high - low < 1
RangeSmall(lo, hi) ==
    IF hi = NegInf THEN lo # NegInf
    ELSE IF lo = NegInf THEN FALSE
    ELSE hi - lo < dB(1)

current_rounded == Round1(current)

\* processor.py:240-244
BisectNudge ==
    /\ pc = "bisect"
    /\ LoopGuard
    /\ current_rounded \in tested_thresholds
    /\ attempts' = attempts + 1
    /\ current' = Plus(current, 2 * Tenth)
    /\ UNCHANGED <<pc, input_size, initial_threshold, presetIdx, preset_results, low,
                   high, tested_thresholds, result, best, final_size, ret, scratch,
                   outputWritten, evals, inBandFar>>
    /\ UNCHANGED <<onlyNoChunks, best_threshold, best_audio>>
    /\ UNCHANGED <<parVars, pathVars, batchVars>>

\* best_threshold = current, without the rounding
NewBestThresholdUnrounded == current

\* processor.py:258: best_threshold = current_rounded
NewBestThreshold == current_rounded

\* a probe as close as best replaces it too
ImprovesOrTies(size) == best = <<>> \/ Dist07(size) <= Dist07(best[1].size)

\* processor.py:256: the probe replaces best
Improves(size) == best = <<>> \/ Dist07(size) < Dist07(best[1].size)

\* a probe that succeeds in the band and is not very close to the target
LandsFar(r) == r.status = "success" /\ InBand(r.size) /\ ~VeryClose(r.size)

\* processor.py:247-288
BisectProbe ==
    /\ pc = "bisect"
    /\ LoopGuard
    /\ current_rounded \notin tested_thresholds
    /\ attempts' = attempts + 1
    /\ evals' = evals + 1
    /\ tested_thresholds' = tested_thresholds \cup {current_rounded}
    /\ \E r \in TestThreshold(BisectSizes) :
        /\ LandsFar(r) => inBandFar < MaxInBandFar
        /\ inBandFar' = IF LandsFar(r) THEN inBandFar + 1 ELSE inBandFar
        /\ result' = r
        /\ onlyNoChunks' = (onlyNoChunks /\ r.status = "no_chunks")
        /\ \E left \in ScratchLeft(r) :
            /\ scratch + left <= MaxLeaked
            /\ scratch' = scratch + left
        /\ IF IsSuccess(r)
           THEN IF InBand(r.size)
                THEN /\ best' = IF Improves(r.size)
                                THEN <<[threshold |-> current_rounded, size |-> r.size]>>
                                ELSE best
                     /\ best_threshold' = IF Improves(r.size)
                                          THEN <<NewBestThreshold>>
                                          ELSE best_threshold
                     /\ best_audio' = IF Improves(r.size)
                                      THEN <<current_rounded>>
                                      ELSE best_audio
                     /\ UNCHANGED <<low, high, current>>
                     /\ pc' = IF Improves(r.size) /\ VeryClose(r.size) THEN "final"
                              ELSE IF RangeSmall(low, high) THEN "final"
                              ELSE "bisect"
                ELSE IF r.size > max_acceptable_size
                THEN /\ high' = current
                     /\ current' = Mid(low, current)
                     /\ pc' = IF RangeSmall(low, current) THEN "final" ELSE "bisect"
                     /\ UNCHANGED <<low, best, best_threshold, best_audio>>
                ELSE /\ low' = current
                     /\ current' = Mid(current, high)
                     /\ pc' = IF RangeSmall(current, high) THEN "final" ELSE "bisect"
                     /\ UNCHANGED <<high, best, best_threshold, best_audio>>
           ELSE /\ low' = current
                /\ current' = Mid(current, high)
                /\ pc' = IF RangeSmall(current, high) THEN "final" ELSE "bisect"
                /\ UNCHANGED <<high, best, best_threshold, best_audio>>
    /\ UNCHANGED <<input_size, initial_threshold, presetIdx, preset_results,
                   final_size, ret, outputWritten>>
    /\ UNCHANGED <<parVars, pathVars, batchVars>>

\* processor.py:236: the loop condition fails
BisectExhausted ==
    /\ pc = "bisect"
    /\ ~LoopGuard
    /\ pc' = "final"
    /\ UNCHANGED <<input_size, initial_threshold, presetIdx, preset_results, low, high,
                   current, tested_thresholds, attempts, result, best, final_size, ret,
                   scratch, outputWritten, evals, inBandFar>>
    /\ UNCHANGED <<onlyNoChunks, best_threshold, best_audio>>
    /\ UNCHANGED <<parVars, pathVars, batchVars>>

(***************************************************************************)
(* processor.py:292-346: export the best audio and decide.                 *)
(***************************************************************************)
\* the export is attempted whether or not a candidate was found
HasBestAlways == TRUE

\* best_threshold is not None and best_audio is not None (processor.py:293)
HasBest == best_threshold # <<>> /\ best_audio # <<>>

\* the ideal range alone, without the two tolerated cases
DecideNoTolerance(size) ==
    IF min_acceptable_size < size /\ size < input_size
    THEN [success |-> TRUE, kind |-> "ideal"]
    ELSE IF size >= input_size
    THEN [success |-> FALSE, kind |-> "too_large"]
    ELSE [success |-> FALSE, kind |-> "too_small"]

\* the tests of lines 307, 316/321 and 328/333 on final_size
Decide(size) ==
    IF min_acceptable_size < size /\ size < input_size
    THEN [success |-> TRUE, kind |-> "ideal"]
    ELSE IF size >= input_size
    THEN IF 100 * size < 101 * input_size
         THEN [success |-> TRUE, kind |-> "near_original"]
         ELSE [success |-> FALSE, kind |-> "too_large"]
    ELSE IF 1000 * size > 9 * MIN_SIZE_RATIO * input_size
         THEN [success |-> TRUE, kind |-> "near_minimum"]
         ELSE [success |-> FALSE, kind |-> "too_small"]

\* processor.py:293-338
FinalExport ==
    /\ pc = "final"
    /\ HasBest
    /\ \E s \in FinalSizes :
        /\ final_size' = s
        /\ ret' = Decide(s)
    /\ outputWritten' = TRUE
    /\ pc' = "done"
    /\ UNCHANGED <<input_size, initial_threshold, presetIdx, preset_results, low, high,
                   current, tested_thresholds, attempts, result, best, scratch, evals,
                   inBandFar>>
    /\ UNCHANGED <<onlyNoChunks, best_threshold, best_audio>>
    /\ UNCHANGED <<parVars, pathVars, batchVars>>

\* processor.py:296 or 299 raises: the handler at 344
FinalExportError ==
    /\ pc = "final"
    /\ HasBest
    /\ outputWritten' \in BOOLEAN
    /\ ret' = [success |-> FALSE, kind |-> "error"]
    /\ pc' = "done"
    /\ UNCHANGED <<input_size, initial_threshold, presetIdx, preset_results, low, high,
                   current, tested_thresholds, attempts, result, best, final_size,
                   scratch, evals, inBandFar>>
    /\ UNCHANGED <<onlyNoChunks, best_threshold, best_audio>>
    /\ UNCHANGED <<parVars, pathVars, batchVars>>

\* processor.py:339-342
NotFound ==
    /\ pc = "final"
    /\ ~HasBest
    /\ ret' = [success |-> FALSE, kind |-> "not_found"]
    /\ pc' = "done"
    /\ UNCHANGED <<input_size, initial_threshold, presetIdx, preset_results, low, high,
                   current, tested_thresholds, attempts, result, best, final_size,
                   scratch, outputWritten, evals, inBandFar>>
    /\ UNCHANGED <<onlyNoChunks, best_threshold, best_audio>>
    /\ UNCHANGED <<parVars, pathVars, batchVars>>

Next ==
    \/ PresetProbe
    \/ SelectPreset
    \/ BisectNudge
    \/ BisectProbe
    \/ BisectExhausted
    \/ FinalExport
    \/ FinalExportError
    \/ NotFound

vars == <<input_size, seqVars, parVars, pathVars, batchVars>>

Spec == Init /\ [][Next]_vars

(***************************************************************************)
(* The sequential search run by the GUI worker thread                      *)
(* (Worker.process_single_file_standard, desilencer_controller.py:155-232, *)
(* called per file by run_batch_sequential, 437-487): process_audio runs   *)
(* on the worker thread while the GUI thread may call Worker.stop.         *)
(***************************************************************************)
\* Worker.stop (desilencer_controller.py:564-566) while process_audio runs
SeqStop ==
    /\ pc \in {"presets", "select", "bisect", "final"}
    /\ running
    /\ running' = FALSE
    /\ UNCHANGED <<input_size, seqVars, searchVars, pathVars, batchVars>>

GuiSeqNext ==
    \/ Next
    \/ SeqStop

GuiSeqSpec == Init /\ [][GuiSeqNext]_vars

(***************************************************************************)
(* Properties of the sequential search (checked under Spec).               *)
(***************************************************************************)
Range(s) == {s[k] : k \in 1..Len(s)}

\* C1: the bisection loop terminates: attempts never exceeds 40, every
\* iteration that stays in the loop (a probe or a nudge) adds one to attempts,
\* and the loop is left as soon as high - low < 1 holds after a probe.
C1_BisectionTerminates ==
    /\ [](attempts <= MAX_SEARCH_ATTEMPTS)
    /\ [][(pc = "bisect" /\ pc' = "bisect") => attempts' = attempts + 1]_vars
    /\ [][(pc = "bisect" /\ evals' = evals + 1 /\ high' - low' < dB(1))
            => pc' # "bisect"]_vars

\* the cap is reached: the loop ran its 40 iterations
C1_CapReached == pc = "final" /\ attempts = MAX_SEARCH_ATTEMPTS

\* C6: no call of test_threshold leaves a scratch file behind, whatever it
\* returns.
C6_NoScratchLeft == scratch = 0

\* C7: the search range satisfies low <= high from the initial bracket on.
C7_LowLeHigh == pc \in {"bisect", "final", "done"} => low <= high

\* C8: during bisection low never decreases and high never increases.
C8_NeverWidens == [][pc = "bisect" => (low' >= low /\ high' <= high)]_vars

\* C9: when a preset probe is a success inside the band, the search goes from
\* the presets to the final export with one test_threshold call per preset and
\* no bisection iteration, and the selected candidate is a preset inside the
\* band with the least |ratio - 0.7| of all such presets.
C9_PresetShortCircuit ==
    /\ [][(pc = "select" /\ \E r \in Range(preset_results) :
                                /\ MinAcceptable(input_size) <= r.size
                                /\ r.size <= MaxAcceptable(input_size))
            => /\ pc' = "final"
               /\ best' # NoBest
               /\ best'[1] \in Range(preset_results)
               /\ MinAcceptable(input_size) <= best'[1].size
               /\ best'[1].size <= MaxAcceptable(input_size)
               /\ \A r \in Range(preset_results) :
                     (/\ MinAcceptable(input_size) <= r.size
                      /\ r.size <= MaxAcceptable(input_size))
                     => Abs(10 * best'[1].size - 7 * input_size)
                            <= Abs(10 * r.size - 7 * input_size)]_vars
    /\ []((pc \in {"final", "done"} /\ best # NoBest /\ best[1] \in Range(preset_results))
            => (evals = Len(Presets) /\ attempts = 0 /\ tested_thresholds = {}))

\* a preset was chosen that is not the first valid one, and the file was accepted
C9_SecondPresetChosen ==
    /\ pc = "done"
    /\ ret.success
    /\ Len(valid_presets) >= 2
    /\ best = <<valid_presets[2]>>
    /\ evals = Len(Presets)

\* C13: a test_threshold call that returns an error ends nothing: no outcome
\* is returned by that step, the error is not recorded as a candidate, every
\* preset is still probed before the selection, and an error outcome of the
\* file comes only from the final export, never from a probe.
C13_ProbeErrorContained ==
    /\ [][(evals' = evals + 1 /\ result'.status = "error")
            => /\ ret' = NoReturn
               /\ pc' \in {"presets", "select", "bisect", "final"}
               /\ preset_results' = preset_results
               /\ best' = best]_vars
    /\ [](pc \in {"select", "bisect", "final", "done"} => evals >= Len(Presets))
    /\ [][(ret'.kind = "error" /\ ret.kind # "error")
            => (pc = "final" /\ evals' = evals)]_vars

\* a probe failed with an exception (its scratch file is still there), the
\* bisection went on and the file was accepted
C13_SuccessAfterProbeError ==
    /\ pc = "done"
    /\ ret.success
    /\ scratch >= 1
    /\ attempts >= 2

\* C14: as long as every test_threshold call has returned no_chunks no
\* candidate is selected and nothing is written at the output path, and the
\* search returns failure with "no threshold found".
C14_AllSilenceExhausted ==
    onlyNoChunks =>
        /\ best = NoBest
        /\ ~outputWritten
        /\ ~ret.success
        /\ pc = "done" => ret.kind = "not_found"

\* the presets and bisection probes all returned no_chunks and the search gave up
C14_ExhaustedOnSilence ==
    /\ pc = "done"
    /\ onlyNoChunks
    /\ evals > Len(Presets)
    /\ ret.kind = "not_found"

\* C17: once the final file has been measured the outcome depends on its size
\* alone: success as ideal iff minAcceptable < size < original; for size >=
\* original success iff 100 * size < 101 * original; for size <= minAcceptable
\* success iff 100 * size > 45 * original; one of the three always applies.
C17_DecisionBySize ==
    (pc = "done" /\ ret.kind \notin {"error", "not_found"})
    => /\ ret # NoReturn
       /\ \/ MinAcceptable(input_size) < final_size /\ final_size < input_size
          \/ final_size >= input_size
          \/ final_size <= MinAcceptable(input_size)
       /\ (MinAcceptable(input_size) < final_size /\ final_size < input_size)
            => (ret.success /\ ret.kind = "ideal")
       /\ final_size >= input_size
            => (ret.success <=> 100 * final_size < 101 * input_size)
       /\ final_size <= MinAcceptable(input_size)
            => (ret.success <=> 100 * final_size > 45 * input_size)
       /\ ret.kind = "ideal"
            => (MinAcceptable(input_size) < final_size /\ final_size < input_size)

\* the final file is exactly minAcceptable bytes and is accepted as close to the floor
C17_AcceptedAtFloor ==
    /\ pc = "done"
    /\ final_size = MinAcceptable(input_size)
    /\ ret.success
    /\ ret.kind # "ideal"

\* C19: a successful preset probe is a valid preset iff its size over the
\* original size is in [0.5, 0.99].
C19_InBandIffRatio ==
    pc = "select" =>
        \A r \in Range(preset_results) :
            (r \in Range(valid_presets))
                <=> (/\ MIN_SIZE_RATIO * input_size <= 100 * r.size
                     /\ 100 * r.size <= MAX_SIZE_RATIO * input_size)

\* C20: the thresholds given to test_threshold are pairwise distinct: the
\* number of calls is the number of distinct thresholds among the presets
\* probed and the bisection probes.
C20_NoThresholdTwice ==
    evals = Cardinality({dB(Presets[k]) : k \in 1..(presetIdx - 1)} \cup tested_thresholds)

\* C23: when no preset is in the band the bisection starts with high = the
\* largest threshold among the presets whose probe overshot the band
\* (MAX_THRESHOLD when there is none) and low = the largest threshold among the
\* presets whose probe undershot it (MIN_THRESHOLD when there is none).
C23_InitialBracket ==
    [][(pc = "select" /\ pc' = "bisect")
        => LET over == {r.threshold : r \in {q \in Range(preset_results) :
                                                 q.size > MaxAcceptable(input_size)}}
               under == {r.threshold : r \in {q \in Range(preset_results) :
                                                  q.size < MinAcceptable(input_size)}}
           IN  /\ high' = IF over = {} THEN dB(MAX_THRESHOLD)
                          ELSE CHOOSE t \in over : \A u \in over : u <= t
               /\ low' = IF under = {} THEN dB(MIN_THRESHOLD)
                         ELSE CHOOSE t \in under : \A u \in under : u <= t]_vars

\* C24: a bisection probe that succeeds above the band sets high to current
\* and current to (low + high) / 2 and leaves low alone; a probe that succeeds
\* below the band, finds no chunks or fails sets low to current and current to
\* (current + high) / 2 and leaves high alone.
C24_RangeUpdate ==
    [][(pc = "bisect" /\ evals' = evals + 1)
        => LET half(a, b) == IF a = NegInf \/ b = NegInf THEN NegInf
                             ELSE (a + b) \div 2
           IN  IF result'.status = "success"
                    /\ result'.size > MaxAcceptable(input_size)
               THEN /\ high' = current
                    /\ current' = half(low, high')
                    /\ low' = low
               ELSE IF result'.status = "success"
                    /\ result'.size >= MinAcceptable(input_size)
               THEN TRUE
               ELSE /\ low' = current
                    /\ current' = half(current, high)
                    /\ high' = high]_vars

\* a probe above the band has just halved the range from the top, at a
\* candidate that was itself a midpoint
C24_HalvedFromAbove ==
    /\ pc = "bisect"
    /\ attempts >= 2
    /\ result.status = "success"
    /\ result.size > MaxAcceptable(input_size)
    /\ Round1(high) \in tested_thresholds
    /\ high # initial_threshold
    /\ low # NegInf
    /\ current = (low + high) \div 2

\* C25: after a bisection probe that is too large the next candidate is below
\* the threshold just probed, and after a probe that is too small or that
\* failed the next candidate is above it.
C25_CandidateMoves ==
    [][(pc = "bisect" /\ evals' = evals + 1)
        => /\ (result'.status = "success"
                 /\ result'.size > MaxAcceptable(input_size))
                => current' < Round1(current)
           /\ (result'.status # "success"
                 \/ result'.size < MinAcceptable(input_size))
                => current' > Round1(current)]_vars

\* C26: an iteration whose rounded current is already a key of the tested map
\* calls test_threshold not at all, adds 0.2 dB to current and one to attempts,
\* and leaves low, high, best and the tested map as they are.
C26_NudgeFrame ==
    [][(pc = "bisect" /\ attempts < MAX_SEARCH_ATTEMPTS
          /\ Round1(current) \in tested_thresholds)
        => /\ evals' = evals
           /\ current' = (IF current = NegInf THEN NegInf ELSE current + dB(2) \div 10)
           /\ attempts' = attempts + 1
           /\ UNCHANGED <<low, high, best, best_threshold, best_audio,
                          tested_thresholds>>]_vars

\* a finite candidate was nudged: more iterations than probes
C26_Nudged ==
    /\ pc = "bisect"
    /\ current # NegInf
    /\ attempts > Cardinality(tested_thresholds)
    /\ Round1(current) \notin tested_thresholds

\* C27: during the bisection a probe in the band replaces best iff best is
\* unset or the probe is strictly closer to the ratio 0.7, and no other probe
\* changes best; best is unset iff no probe has landed in the band; the loop
\* is left at once when a newly recorded best is within 0.05 of 0.7, and no
\* test_threshold call follows.
C27_BestIsClosest ==
    /\ [][(pc = "bisect" /\ evals' = evals + 1)
           => LET r == result'
                  inband == /\ r.status = "success"
                            /\ MinAcceptable(input_size) <= r.size
                            /\ r.size <= MaxAcceptable(input_size)
                  d(sz) == Abs(100 * sz - 70 * input_size)
                  closer == best = NoBest \/ d(r.size) < d(best[1].size)
              IN  /\ (inband /\ closer)
                       => best' = <<[threshold |-> Round1(current), size |-> r.size]>>
                  /\ ~(inband /\ closer) => best' = best
                  /\ (inband /\ closer /\ d(r.size) < 5 * input_size)
                       => pc' = "final"]_vars
    /\ [](pc = "bisect" => (best = NoBest <=> inBandFar = 0))
    /\ [][(pc \in {"final", "done"}) => evals' = evals]_vars

\* a candidate in the band was replaced by a closer one that ended the search
C27_CloserOneEndsSearch ==
    /\ pc = "final"
    /\ inBandFar >= 1
    /\ attempts < MAX_SEARCH_ATTEMPTS
    /\ best # NoBest
    /\ Abs(100 * best[1].size - 70 * input_size) < 5 * input_size
    /\ result.size = best[1].size

\* C28: best_result, best_threshold and best_audio are all unset or all come
\* from one probe: the threshold kept is the threshold that probe was called
\* with and the audio kept is the audio that probe returned.
C28_BestFromOneProbe ==
    \/ best = NoBest /\ best_threshold = <<>> /\ best_audio = <<>>
    \/ /\ best # NoBest
       /\ best_threshold = <<best[1].threshold>>
       /\ best_audio = <<best[1].threshold>>

\* a bisection candidate probed at a rounded threshold was exported and accepted
C28_RoundedCandidateExported ==
    /\ pc = "done"
    /\ ret.success
    /\ outputWritten
    /\ tested_thresholds # {}
    /\ current # Round1(current)
    /\ best_threshold = <<Round1(current)>>

\* C29: when process_audio returns failure no file has been written at the
\* output path.
C29_FailureWritesNothing == (pc = "done" /\ ~ret.success) => ~outputWritten

\* C22: in sequential mode, once a cancel request has been made while a
\* file's search is running, no further test_threshold call is made for that
\* file.
C22_NoProbeAfterCancel ==
    [][(pc \in {"presets", "select", "bisect"} /\ ~running)
        => evals' = evals]_vars

(***************************************************************************)
(* The concurrent search.                                                  *)
(*                                                                         *)
(* One task per preset threshold is submitted to a ProcessPoolExecutor of  *)
(* max_workers processes; the controller consumes the futures in the order *)
(* as_completed yields them.  What each task returns is fixed when the     *)
(* search starts (the audio and the thresholds decide it); the order in    *)
(* which the tasks run and complete is not.                                *)
(***************************************************************************)
Tasks == 1..NumTasks

\* self.preset_thresholds (desilencer_controller.py:121), preset_thresholds (app.py:232)
TaskThreshold(i) == PRESET_THRESHOLDS[i]

(***************************************************************************)
(* test_threshold_task (desilencer_controller.py:39-99, app.py:164-222):   *)
(* what one task can return.  file: the task left a scratch file on disk.  *)
(* A "success" result names it in temp_path; an exception raised by the    *)
(* export or by getsize, after the file was created, is returned as        *)
(* "error" with no temp_path.                                              *)
(***************************************************************************)
TaskFailed == [status |-> "failed", output_size |-> 0, file |-> FALSE]
TaskSuccess(s) == [status |-> "success", output_size |-> s, file |-> TRUE]
TaskError(f) == [status |-> "error", output_size |-> 0, file |-> f]

\* AudioSegment.from_file raises in the task (desilencer_controller.py:49,
\* app.py:172), before any file is written
LoadFailed == TaskError(FALSE)

TestThresholdTask ==
    {TaskFailed} \cup {TaskSuccess(s) : s \in TaskSizes} \cup {TaskError(f) : f \in BOOLEAN}

ParInit ==
    /\ input_size \in InputSizes
    /\ SeqIdle
    /\ PathIdle
    /\ BatchIdle
    /\ variant \in {"gui", "web"}
    /\ running = TRUE
    /\ audioLoads \in BOOLEAN
    /\ outcome \in IF audioLoads THEN [Tasks -> TestThresholdTask]
                               ELSE {[i \in Tasks |-> LoadFailed]}
    /\ taskState = [i \in Tasks |-> "queued"]
    /\ collected = {}
    /\ valid_results = <<>>
    /\ temp_files = {}
    /\ scratchFiles = {}
    /\ ppc = "collect"
    /\ best_result = NoBest
    /\ pfinal_size = 0
    /\ pret = NoReturn
    /\ poutputWritten = FALSE

\* a worker process takes the next queued task
TaskStart(i) ==
    /\ taskState[i] = "queued"
    /\ \A j \in Tasks : j < i => taskState[j] # "queued"
    /\ Cardinality({j \in Tasks : taskState[j] = "running"}) < MaxWorkers
    /\ taskState' = [taskState EXCEPT ![i] = "running"]
    /\ UNCHANGED <<variant, audioLoads, running, outcome, collected, valid_results, temp_files,
                   scratchFiles, ppc, best_result, pfinal_size, pret, poutputWritten>>
    /\ UNCHANGED <<input_size, seqVars, pathVars, batchVars>>

\* the controller has returned and its TemporaryDirectory has been removed
ScratchDirRemoved == variant = "gui" /\ ppc = "done"

\* the task returns; its scratch file, if it wrote one, is on disk.  A task
\* abandoned by a cancelled controller exports into a directory that is being
\* removed or is gone: the export fails, or the file is created behind rmtree.
TaskFinish(i) ==
    /\ taskState[i] = "running"
    /\ taskState' = [taskState EXCEPT ![i] = "finished"]
    /\ IF outcome[i].file
       THEN IF ScratchDirRemoved
            THEN scratchFiles' \in {scratchFiles, scratchFiles \cup {i}}
            ELSE scratchFiles' = scratchFiles \cup {i}
       ELSE scratchFiles' = scratchFiles
    /\ UNCHANGED <<variant, audioLoads, running, outcome, collected, valid_results, temp_files,
                   ppc, best_result, pfinal_size, pret, poutputWritten>>
    /\ UNCHANGED <<input_size, seqVars, pathVars, batchVars>>

\* Worker.stop (desilencer_controller.py:564-566), called from the GUI thread
Stop ==
    /\ variant = "gui"
    /\ ppc \notin {"done"}
    /\ running
    /\ running' = FALSE
    /\ UNCHANGED <<variant, audioLoads, outcome, taskState, collected, valid_results, temp_files,
                   scratchFiles, ppc, best_result, pfinal_size, pret, poutputWritten>>
    /\ UNCHANGED <<input_size, seqVars, pathVars, batchVars>>

\* the flag is never looked at
CancelledNever == FALSE

\* the loop checks the flag only in the GUI controller (desilencer_controller.py:278)
Cancelled == variant = "gui" /\ ~running

\* _clean_temp_files (desilencer_controller.py:146-153), clean_temp_files (file_utils.py:62-74)
CleanTempFiles(files) == scratchFiles \ files

\* min_acceptable_size <= result["output_size"] <= max_acceptable_size
\* (desilencer_controller.py:305, app.py:280)
TaskInBand(r) == min_acceptable_size <= r.output_size /\ r.output_size <= max_acceptable_size

\* desilencer_controller.py:286-314, app.py:269-284: the loop body for future i
ParCollect(i) ==
    /\ ppc = "collect"
    /\ taskState[i] = "finished"
    /\ i \notin collected
    /\ ~Cancelled
    /\ collected' = collected \cup {i}
    /\ IF outcome[i].status = "success"
       THEN /\ temp_files' = temp_files \cup {i}
            /\ valid_results' =
                 IF TaskInBand(outcome[i])
                 THEN Append(valid_results,
                             [threshold |-> TaskThreshold(i), task |-> i,
                              output_size |-> outcome[i].output_size])
                 ELSE valid_results
       ELSE UNCHANGED <<temp_files, valid_results>>
    /\ UNCHANGED <<variant, audioLoads, running, outcome, taskState, scratchFiles, ppc, best_result,
                   pfinal_size, pret, poutputWritten>>
    /\ UNCHANGED <<input_size, seqVars, pathVars, batchVars>>

\* desilencer_controller.py:278-284: the flag is seen when a future is yielded
ParCancelInLoop(i) ==
    /\ ppc = "collect"
    /\ taskState[i] = "finished"
    /\ i \notin collected
    /\ Cancelled
    /\ scratchFiles' = CleanTempFiles(temp_files)
    /\ pret' = [success |-> FALSE, kind |-> "cancelled"]
    /\ ppc' = "exiting"
    /\ UNCHANGED <<variant, audioLoads, running, outcome, taskState, collected, valid_results,
                   temp_files, best_result, pfinal_size, poutputWritten>>
    /\ UNCHANGED <<input_size, seqVars, pathVars, batchVars>>

\* abs(r["ratio"] - target_ratio) with target_ratio = 0.75
Dist075(r) == Dist(r.output_size, 75)

\* the first result that arrived, without the sort
BestResultFirstMatch(results) == results[1]

\* valid_results.sort(key=lambda r: abs(r["ratio"] - target_ratio)); valid_results[0]
BestResult(results) == results[FirstMinIdx([k \in 1..Len(results) |-> Dist075(results[k])])]

\* the loop ends at the first collected result
AnyCollected == collected # {}

\* as_completed is exhausted: every future has been yielded
AllCollected == collected = Tasks

\* desilencer_controller.py:319-334 and 377-389, app.py:287-294 and 336-339
ParSelect ==
    /\ ppc = "collect"
    /\ AllCollected
    /\ IF Cancelled
       THEN /\ scratchFiles' = CleanTempFiles(temp_files)
            /\ pret' = [success |-> FALSE, kind |-> "cancelled"]
            /\ ppc' = "exiting"
            /\ UNCHANGED best_result
       ELSE IF valid_results # <<>>
       THEN /\ best_result' = <<BestResult(valid_results)>>
            /\ ppc' = "final"
            /\ UNCHANGED <<scratchFiles, pret>>
       ELSE /\ scratchFiles' = CleanTempFiles(temp_files)
            /\ pret' = [success |-> FALSE, kind |-> "not_found"]
            /\ ppc' = "exiting"
            /\ UNCHANGED best_result
    /\ UNCHANGED <<variant, audioLoads, running, outcome, taskState, collected, valid_results,
                   temp_files, pfinal_size, poutputWritten>>
    /\ UNCHANGED <<input_size, seqVars, pathVars, batchVars>>

\* desilencer_controller.py:341-376, app.py:300-335: the final pass succeeds.
\* Neither controller tests the size of the file it wrote.
ParFinalExport ==
    /\ ppc = "final"
    /\ poutputWritten' = TRUE
    /\ pfinal_size' \in FinalSizes
    /\ scratchFiles' = IF variant = "web" THEN CleanTempFiles(temp_files) ELSE scratchFiles
    /\ pret' = [success |-> TRUE, kind |-> "ok"]
    /\ ppc' = "exiting"
    /\ UNCHANGED <<variant, audioLoads, running, outcome, taskState, collected, valid_results,
                   temp_files, best_result>>
    /\ UNCHANGED <<input_size, seqVars, pathVars, batchVars>>

\* desilencer_controller.py:353-356, app.py:312-315: the final split finds no chunks
ParFinalNoChunks ==
    /\ ppc = "final"
    /\ scratchFiles' = IF variant = "web" THEN CleanTempFiles(temp_files) ELSE scratchFiles
    /\ pret' = [success |-> FALSE, kind |-> "no_chunks"]
    /\ ppc' = "exiting"
    /\ UNCHANGED <<variant, audioLoads, running, outcome, taskState, collected, valid_results,
                   temp_files, best_result, pfinal_size, poutputWritten>>
    /\ UNCHANGED <<input_size, seqVars, pathVars, batchVars>>

\* the final load, split or export raises: desilencer_controller.py:391-410,
\* app.py:351-353
ParFinalError ==
    /\ ppc = "final"
    /\ poutputWritten' \in BOOLEAN
    /\ pret' = [success |-> FALSE, kind |-> "error"]
    /\ ppc' = "exiting"
    /\ UNCHANGED <<variant, audioLoads, running, outcome, taskState, collected, valid_results,
                   temp_files, scratchFiles, best_result, pfinal_size>>
    /\ UNCHANGED <<input_size, seqVars, pathVars, batchVars>>

\* the controller returns.  After the loop every task has finished.  The return
\* from inside the loop (desilencer_controller.py:284) follows
\* executor.shutdown(wait=False) (281), after which the with block no longer
\* waits for the tasks: they are abandoned and go on running.  In the GUI
\* controller the scratch directory is temp_dir (desilencer_controller.py:238),
\* removed with all its files when the TemporaryDirectory object is released
\* at the return.
ParReturn ==
    /\ ppc = "exiting"
    /\ scratchFiles' = IF variant = "gui" THEN {} ELSE scratchFiles
    /\ ppc' = "done"
    /\ UNCHANGED <<variant, audioLoads, running, outcome, taskState, collected, valid_results,
                   temp_files, best_result, pfinal_size, pret, poutputWritten>>
    /\ UNCHANGED <<input_size, seqVars, pathVars, batchVars>>

ParNext ==
    \/ \E i \in Tasks : TaskStart(i)
    \/ \E i \in Tasks : TaskFinish(i)
    \/ Stop
    \/ \E i \in Tasks : ParCollect(i)
    \/ \E i \in Tasks : ParCancelInLoop(i)
    \/ ParSelect
    \/ ParFinalExport
    \/ ParFinalNoChunks
    \/ ParFinalError
    \/ ParReturn

ParSpec == ParInit /\ [][ParNext]_vars

(***************************************************************************)
(* Properties of the concurrent search (checked under ParSpec).            *)
(***************************************************************************)
\* the band and the two tolerated cases of a successful search, on a final size
InRatioBand(size) ==
    /\ MIN_SIZE_RATIO * input_size <= 100 * size
    /\ 100 * size <= MAX_SIZE_RATIO * input_size
NearOriginal(size) == size >= input_size /\ 100 * size < 101 * input_size
NearMinimum(size) == size <= MinAcceptable(input_size) /\ 100 * size > 45 * input_size

\* C2: whenever a search reports success, the final size over the original
\* size is in [0.5, 0.99], or below 1.01 with the final size at least the
\* original, or above 0.45 with the final size at most minAcceptable.
C2_BandInvariant ==
    /\ pret.success =>
         (InRatioBand(pfinal_size) \/ NearOriginal(pfinal_size) \/ NearMinimum(pfinal_size))
    /\ ret.success =>
         (InRatioBand(final_size) \/ NearOriginal(final_size) \/ NearMinimum(final_size))

\* the tasks whose probe succeeded with a size inside the band
InBandTasks ==
    {i \in Tasks : /\ outcome[i].status = "success"
                   /\ MinAcceptable(input_size) <= outcome[i].output_size
                   /\ outcome[i].output_size <= MaxAcceptable(input_size)}

\* what the controller chooses when the results arrive in the order of submission
RECURSIVE InOrder(_)
InOrder(n) ==
    IF n = 0 THEN <<>>
    ELSE IF n \in InBandTasks
    THEN Append(InOrder(n - 1), [threshold |-> TaskThreshold(n), task |-> n,
                                 output_size |-> outcome[n].output_size])
    ELSE InOrder(n - 1)

\* C3: for a fixed assignment of results to thresholds the chosen threshold is
\* the same for every order of completion: it is the one chosen when the
\* results arrive in the order of submission.
C3_OrderIndependent ==
    best_result # NoBest =>
        best_result[1].threshold = BestResult(InOrder(NumTasks)).threshold

\* C5: when the controller has returned, with any outcome, no scratch file of
\* any probe task is left on disk.
C5_ScratchDeleted == ppc = "done" => scratchFiles = {}

\* C10: when every task has completed and the run is not cancelled, the
\* candidates are exactly the successes inside the band, and the one selected
\* has the least |ratio - 0.75| of them; nothing is selected when there is none.
C10_SelectsClosest ==
    (ppc \in {"final", "exiting", "done"} /\ collected = Tasks /\ pret.kind # "cancelled")
    => /\ {r.task : r \in Range(valid_results)} = InBandTasks
       /\ InBandTasks = {} => best_result = NoBest
       /\ InBandTasks # {} =>
            /\ best_result # NoBest
            /\ best_result[1].task \in InBandTasks
            /\ best_result[1].output_size = outcome[best_result[1].task].output_size
            /\ best_result[1].threshold = TaskThreshold(best_result[1].task)
            /\ \A i \in InBandTasks :
                  Abs(100 * best_result[1].output_size - 75 * input_size)
                      <= Abs(100 * outcome[i].output_size - 75 * input_size)

\* the controller succeeded with a candidate that was not the first to arrive
C10_LaterArrivalChosen ==
    /\ ppc = "done"
    /\ pret.success
    /\ Len(valid_results) >= 2
    /\ best_result[1] # valid_results[1]
    /\ \E i \in Tasks : outcome[i].status = "success" /\ i \notin InBandTasks

\* C11: the final output path is written at most once, and only when every
\* probe result has been collected and a best candidate inside the band has
\* been chosen; a run that reports no candidate or cancellation has not
\* written it.
C11_FinalWrittenOnce ==
    /\ [][(poutputWritten' # poutputWritten \/ pfinal_size' # pfinal_size)
            => /\ ~poutputWritten
               /\ pret = NoReturn
               /\ collected = Tasks
               /\ best_result # NoBest
               /\ best_result[1].task \in InBandTasks]_vars
    /\ [](pret.kind \in {"not_found", "cancelled"} => ~poutputWritten)

\* the web controller wrote its output after collecting every result
C11_WebOutputWritten ==
    /\ variant = "web"
    /\ ppc = "done"
    /\ poutputWritten
    /\ pret.kind = "ok"
    /\ collected = Tasks

\* C12: when the loop of the GUI controller is left with the cancel flag down
\* the outcome is "cancelled" (not "not found", not an error, not success);
\* from then on no result is consumed, no candidate is chosen and nothing is
\* exported; and when the call returns no scratch file is on disk.
C12_CancelStops ==
    /\ [][(variant = "gui" /\ ppc = "collect" /\ ppc' # "collect" /\ ~running)
            => (pret'.kind = "cancelled" /\ ~pret'.success)]_vars
    /\ [][pret.kind = "cancelled"
            => /\ collected' = collected
               /\ valid_results' = valid_results
               /\ temp_files' = temp_files
               /\ best_result' = best_result
               /\ poutputWritten' = poutputWritten
               /\ pret' = pret]_vars
    /\ [][(pret.kind = "cancelled" /\ ppc = "exiting" /\ ppc' = "done")
            => scratchFiles' = {}]_vars

\* a run cancelled in the loop returned while a task was still running, after
\* it had consumed the result of another
C12_CancelledWithTaskRunning ==
    /\ ppc = "done"
    /\ pret.kind = "cancelled"
    /\ collected # {}
    /\ \E i \in Tasks : taskState[i] = "running"

\* C15: when the audio cannot be loaded no probe task is started, no scratch
\* or output file is written, and the controller does not report "no
\* suitable threshold".
C15_LoadFailureStopsEarly ==
    ~audioLoads =>
        /\ \A i \in Tasks : taskState[i] = "queued"
        /\ scratchFiles = {}
        /\ ~poutputWritten
        /\ pret.kind \in {"running", "error"}

\* C18: the concurrent controller reports success only for a final file whose
\* size passes the accept/reject rule of the sequential path.
C18_FinalSizeJudged ==
    pret.success =>
        /\ poutputWritten
        /\ \/ MinAcceptable(input_size) < pfinal_size /\ pfinal_size < input_size
           \/ pfinal_size >= input_size /\ 100 * pfinal_size < 101 * input_size
           \/ pfinal_size <= MinAcceptable(input_size) /\ 100 * pfinal_size > 45 * input_size

\* C30: once Worker.stop() has been called while the concurrent search has not
\* yet written the final output file, the search never writes that file and
\* never reports success.
C30_StopBeforeWritePreventsOutput ==
    [][(~running /\ ~poutputWritten)
        => (~poutputWritten' /\ ~pret'.success)]_vars

(***************************************************************************)
(* The scratch paths of one concurrent search.                             *)
(*                                                                         *)
(* The caller's preset list is taken as it is: the GUI parses the text of  *)
(* the thresholds field (desilencer_controller.py:927-951) and the web     *)
(* page the preset string (app.py:232), neither removes a repeated value.  *)
(* One task per list entry is submitted; each task, once a worker process  *)
(* runs it, reads the wall clock when it builds its path and then exports  *)
(* to that path.  The clock advances on its own between the steps.         *)
(***************************************************************************)
\* the thresholds a caller may type
PathThresholds == {PRESET_THRESHOLDS[k] : k \in 1..NumPresets}

\* the path: the input file's name is the same for all tasks of one search
ScratchPath(threshold, now) == <<threshold, now>>

PathInit ==
    /\ input_size \in InputSizes
    /\ SeqIdle
    /\ ParIdle
    /\ BatchIdle
    /\ thresholds \in [Tasks -> PathThresholds]
    /\ clock = 0
    /\ probeState = [i \in Tasks |-> "queued"]
    /\ temp_output_path = [i \in Tasks |-> <<>>]

\* a worker process takes the next queued task
ProbeStart(i) ==
    /\ probeState[i] = "queued"
    /\ \A j \in Tasks : j < i => probeState[j] # "queued"
    /\ Cardinality({j \in Tasks : probeState[j] \in {"running", "named"}}) < MaxWorkers
    /\ probeState' = [probeState EXCEPT ![i] = "running"]
    /\ UNCHANGED <<thresholds, clock, temp_output_path>>
    /\ UNCHANGED <<input_size, seqVars, parVars, batchVars>>

\* time passes
ClockTick ==
    /\ clock < MaxClock
    /\ clock' = clock + 1
    /\ UNCHANGED <<thresholds, probeState, temp_output_path>>
    /\ UNCHANGED <<input_size, seqVars, parVars, batchVars>>

\* desilencer_controller.py:75, app.py:198
ProbeName(i) ==
    /\ probeState[i] = "running"
    /\ temp_output_path' =
         [temp_output_path EXCEPT ![i] = ScratchPath(thresholds[i], clock)]
    /\ probeState' = [probeState EXCEPT ![i] = "named"]
    /\ UNCHANGED <<thresholds, clock>>
    /\ UNCHANGED <<input_size, seqVars, parVars, batchVars>>

\* desilencer_controller.py:78, app.py:201
ProbeExport(i) ==
    /\ probeState[i] = "named"
    /\ probeState' = [probeState EXCEPT ![i] = "exported"]
    /\ UNCHANGED <<thresholds, clock, temp_output_path>>
    /\ UNCHANGED <<input_size, seqVars, parVars, batchVars>>

PathNext ==
    \/ \E i \in Tasks : ProbeStart(i)
    \/ ClockTick
    \/ \E i \in Tasks : ProbeName(i)
    \/ \E i \in Tasks : ProbeExport(i)

PathSpec == PathInit /\ [][PathNext]_vars

\* C21: no two probe tasks of one concurrent search write to the same scratch
\* path, whatever the preset list and the timing.
C21_DistinctScratchPaths ==
    \A i, j \in Tasks :
        (i # j /\ probeState[i] = "exported" /\ probeState[j] = "exported")
            => temp_output_path[i] # temp_output_path[j]

(***************************************************************************)
(* Batch processing.                                                       *)
(*                                                                         *)
(* One future per audio file.  process_single_file (__main__.py:18-39) and *)
(* process_file_task (desilencer_controller.py:25-35) catch every          *)
(* exception of the search and return a failure, so a future gives a       *)
(* success, a failure, or, when the pool itself fails, raises from         *)
(* future.result().                                                        *)
(***************************************************************************)
Files == 1..NumFiles

FileOutcomes == {"ok", "failed", "raised"}

BatchInit ==
    /\ input_size \in InputSizes
    /\ SeqIdle
    /\ ParIdle
    /\ PathIdle
    /\ batchMode \in {"cli", "gui"}
    /\ fileOutcome \in [Files -> FileOutcomes]
    /\ fileState = [f \in Files |-> "queued"]
    /\ bcollected = {}
    /\ processed_files = 0
    /\ success_count = 0
    /\ fail_count = 0
    /\ bpc = "collect"
    /\ bret = [success |-> FALSE, kind |-> "running"]

\* a worker process takes the next queued file
FileStart(f) ==
    /\ fileState[f] = "queued"
    /\ \A g \in Files : g < f => fileState[g] # "queued"
    /\ Cardinality({g \in Files : fileState[g] = "running"}) < MaxWorkers
    /\ fileState' = [fileState EXCEPT ![f] = "running"]
    /\ UNCHANGED <<batchMode, fileOutcome, bcollected, processed_files, success_count,
                   fail_count, bpc, bret>>
    /\ UNCHANGED <<input_size, seqVars, parVars, pathVars>>

FileFinish(f) ==
    /\ fileState[f] = "running"
    /\ fileState' = [fileState EXCEPT ![f] = "finished"]
    /\ UNCHANGED <<batchMode, fileOutcome, bcollected, processed_files, success_count,
                   fail_count, bpc, bret>>
    /\ UNCHANGED <<input_size, seqVars, parVars, pathVars>>

\* Worker.stop (desilencer_controller.py:564-566) during a batch
BatchStop ==
    /\ batchMode = "gui"
    /\ bpc # "done"
    /\ running
    /\ running' = FALSE
    /\ UNCHANGED batchVars
    /\ UNCHANGED <<input_size, seqVars, searchVars, pathVars>>

\* the batch loop checks the flag only in the GUI (desilencer_controller.py:520)
BatchCancelled == batchMode = "gui" /\ ~running

\* only a returned failure is counted, not a future that raises
CountsReturnedFailure(o) == o = "failed"

\* success false, or the except branch (desilencer_controller.py:533-547,
\* __main__.py:82-84 and 99-100)
CountsAsFailure(o) == o # "ok"

\* desilencer_controller.py:519-551, __main__.py:74-84: the loop body for one future
BatchCollect(f) ==
    /\ bpc = "collect"
    /\ fileState[f] = "finished"
    /\ f \notin bcollected
    /\ ~BatchCancelled
    /\ bcollected' = bcollected \cup {f}
    /\ processed_files' = processed_files + 1
    /\ success_count' = IF fileOutcome[f] = "ok" THEN success_count + 1 ELSE success_count
    /\ fail_count' = IF CountsAsFailure(fileOutcome[f]) THEN fail_count + 1 ELSE fail_count
    /\ UNCHANGED <<batchMode, fileOutcome, fileState, bpc, bret>>
    /\ UNCHANGED <<input_size, seqVars, parVars, pathVars>>

\* desilencer_controller.py:520-523: the flag is seen when a future is yielded
BatchCancelInLoop(f) ==
    /\ bpc = "collect"
    /\ fileState[f] = "finished"
    /\ f \notin bcollected
    /\ BatchCancelled
    /\ bpc' = "report"
    /\ UNCHANGED <<batchMode, fileOutcome, fileState, bcollected, processed_files,
                   success_count, fail_count, bret>>
    /\ UNCHANGED <<input_size, seqVars, parVars, pathVars>>

\* as_completed is exhausted
BatchLoopEnd ==
    /\ bpc = "collect"
    /\ bcollected = Files
    /\ bpc' = "report"
    /\ UNCHANGED <<batchMode, fileOutcome, fileState, bcollected, processed_files,
                   success_count, fail_count, bret>>
    /\ UNCHANGED <<input_size, seqVars, parVars, pathVars>>

\* desilencer_controller.py:554-562, __main__.py:98-105
BatchReport ==
    /\ bpc = "report"
    /\ bret' = IF BatchCancelled
               THEN [success |-> FALSE, kind |-> "cancelled"]
               ELSE [success |-> success_count > 0, kind |-> "finished"]
    /\ bpc' = "done"
    /\ UNCHANGED <<batchMode, fileOutcome, fileState, bcollected, processed_files,
                   success_count, fail_count>>
    /\ UNCHANGED <<input_size, seqVars, parVars, pathVars>>

BatchNext ==
    \/ \E f \in Files : FileStart(f)
    \/ \E f \in Files : FileFinish(f)
    \/ BatchStop
    \/ \E f \in Files : BatchCollect(f)
    \/ \E f \in Files : BatchCancelInLoop(f)
    \/ BatchLoopEnd
    \/ BatchReport

BatchSpec == BatchInit /\ [][BatchNext]_vars

\* C16: the counters always account for exactly the files collected so far,
\* and a batch that finishes without cancellation has one result for every
\* file: success_count + fail_count is the number of files, with one success
\* for each file whose processing succeeded.
C16_EveryFileCounted ==
    /\ processed_files = Cardinality(bcollected)
    /\ success_count + fail_count = processed_files
    /\ (bpc = "done" /\ bret.kind = "finished")
         => /\ bcollected = Files
            /\ success_count + fail_count = NumFiles
            /\ success_count = Cardinality({f \in Files : fileOutcome[f] = "ok"})
            /\ bret.success = (\E f \in Files : fileOutcome[f] = "ok")

\* a batch finished with a success recorded after a failure and a raised future
C16_MixedBatchFinished ==
    /\ bpc = "done"
    /\ bret.kind = "finished"
    /\ success_count >= 1
    /\ \E f \in Files : fileOutcome[f] = "failed"
    /\ \E f \in Files : fileOutcome[f] = "raised"

====
